---- MODULE Spec2Model ----
(***************************************************************************)
(* Sandbox session controller of src/src/App.tsx: the mount effect that    *)
(* boots a WebContainer, mounts the project, runs "npm install", runs      *)
(* "node index.js", relays both processes' output into `output` and the    *)
(* server-ready event into `webContainerUrl`.                              *)
(*                                                                         *)
(* src/src/App.tsx holds two revisions of the component (lines 1-241 and   *)
(* lines 243-410).  They differ, for this model, in the text put before a  *)
(* cleaned chunk and in the failure message; `rev` selects the revision.   *)
(*                                                                         *)
(* Text is a sequence of characters, each character a one-element string.  *)
(* "ESC" stands for U+001B, "CSI" for U+009B, "LF" for the line feed.      *)
(* The fixed messages (non-ASCII in the source) are one token each.        *)
(***************************************************************************)
EXTENDS Integers, Sequences, FiniteSets, TLC

VARIABLES
    rev,              \* which revision of App.tsx runs (1 or 2)
    output,           \* useState<string>("")
    isLoading,        \* useState(true)
    webContainerUrl,  \* useState<string>("")
    webContainerRef,  \* useRef<boolean | null>(null), FALSE models null
    iframeKey,        \* useState(0)
    pc,               \* position of startWebContainer
    installPipe,      \* installProcess.output.pipeTo(...) is attached
    startPipe,        \* startProcess.output.pipeTo(...) is attached
    listener,         \* webcontainerInstance.on("server-ready", ...) is registered
    calls,            \* history: runtime calls made, in order
    arrived,          \* history: chunks handed to a write() callback, in order
    readyDelivered,   \* history: addresses handed to the server-ready callback
    log,              \* history: everything that set or extended output, in order
    installExit,      \* history: <<exit code>> once the install exit resolved, else <<>>
    failedAt,         \* history: the pc at which the catch block ran, or None
    effectRuns,       \* history: number of runs of the mount effect
    refreshCalls,     \* history: number of refreshIframe calls
    installQueue,     \* chunks in installProcess.output not yet handed to write()
    startQueue,       \* chunks in startProcess.output not yet handed to write()
    installEmitted,   \* history: chunks the install process emitted, in order
    startEmitted,     \* history: chunks the start process emitted, in order
    readyMissed       \* history: server-ready events emitted with no listener registered

vars == <<rev, output, isLoading, webContainerUrl, webContainerRef, iframeKey, pc,
          installPipe, startPipe, listener, calls, arrived, readyDelivered, log,
          installExit, failedAt, effectRuns, refreshCalls,
          installQueue, startQueue, installEmitted, startEmitted, readyMissed>>

\* the output streams of the two processes
streams == <<installQueue, startQueue, installEmitted, startEmitted>>

None == "none"

\* ---------------------------------------------------------------- bounds
MaxChunks == 2
MaxReady == 2
MaxRefresh == 2
MaxEffectRuns == 2

\* ---------------------------------------------------------------- text
ESC == "ESC"
CSI == "CSI"
LF == "LF"

Digits == {"0", "1", "2", "3", "4", "5", "6", "7", "8", "9"}

\* [[()#;?]
IntroChars == {"[", "(", ")", "#", ";", "?"}

\* [0-9A-ORZcf-nqry=><]
FinalChars ==
    Digits \cup {"A", "B", "C", "D", "E", "F", "G", "H", "I", "J", "K", "L", "M", "N", "O"}
           \cup {"R", "Z", "c", "f", "g", "h", "i", "j", "k", "l", "m", "n", "q", "r", "y"}
           \cup {"=", ">", "<"}

Min(a, b) == IF a < b THEN a ELSE b

\* number of consecutive characters of s, from position p, that are in S
RECURSIVE CountIn(_, _, _)
CountIn(s, p, S) ==
    IF p <= Len(s) /\ s[p] \in S THEN 1 + CountIn(s, p + 1, S) ELSE 0

\* The matchers return the position of the last character of the match, 0 for
\* no match, and try the alternatives in the order a backtracking matcher does.

\* [0-9A-ORZcf-nqry=><] at q
MatchFinal(s, q) == IF q <= Len(s) /\ s[q] \in FinalChars THEN q ELSE 0

\* (?:;[0-9]{0,4})* at q, greedy, followed by the final character
RECURSIVE MatchParams(_, _)
RECURSIVE TryParam(_, _, _)
MatchParams(s, q) ==
    IF q <= Len(s) /\ s[q] = ";"
    THEN LET r == TryParam(s, q + 1, Min(4, CountIn(s, q + 1, Digits)))
         IN  IF r # 0 THEN r ELSE MatchFinal(s, q)
    ELSE MatchFinal(s, q)

\* [0-9]{0,4} at p taking e digits, then fewer
TryParam(s, p, e) ==
    LET r == MatchParams(s, p + e)
    IN  IF r # 0 THEN r ELSE IF e = 0 THEN 0 ELSE TryParam(s, p, e - 1)

\* [0-9]{1,4} at p taking d digits, then fewer
RECURSIVE TryDigits(_, _, _)
TryDigits(s, p, d) ==
    IF d = 0 THEN 0
    ELSE LET r == MatchParams(s, p + d)
         IN  IF r # 0 THEN r ELSE TryDigits(s, p, d - 1)

\* (?:[0-9]{1,4}(?:;[0-9]{0,4})*)? at p, followed by the final character
MatchGroup(s, p) ==
    LET r == TryDigits(s, p, Min(4, CountIn(s, p, Digits)))
    IN  IF r # 0 THEN r ELSE MatchFinal(s, p)

\* [[()#;?]* at j taking k characters, then fewer
RECURSIVE TryIntro(_, _, _)
TryIntro(s, j, k) ==
    LET r == MatchGroup(s, j + k)
    IN  IF r # 0 THEN r ELSE IF k = 0 THEN 0 ELSE TryIntro(s, j, k - 1)

\* the whole pattern at i
MatchAt(s, i) ==
    IF s[i] \in {ESC, CSI} THEN TryIntro(s, i + 1, CountIn(s, i + 1, IntroChars)) ELSE 0

\* data.replace(/.../g, '') from position i on
RECURSIVE ReplaceFrom(_, _)
ReplaceFrom(s, i) ==
    IF i > Len(s) THEN <<>>
    ELSE LET e == MatchAt(s, i)
         IN  IF e # 0 THEN ReplaceFrom(s, e + 1) ELSE <<s[i]>> \o ReplaceFrom(s, i + 1)

cleanOutput(data) == ReplaceFrom(data, 1)

\* what a write() callback puts before the cleaned chunk
ChunkPrefix1 == <<LF>>
ChunkPrefix2 == <<>>
ChunkPrefix == IF rev = 1 THEN ChunkPrefix1 ELSE ChunkPrefix2

\* the message of the catch block
FailMsg1 == <<"[start WebContainer failed, see the console for details (zh)]">>
FailMsg2 == <<"Failed to start WebContainer. Check console for details.">>
FailMsg == IF rev = 1 THEN FailMsg1 ELSE FailMsg2

\* `\n<server ready, reachable at:>${url}`
ReadyText == "[server ready, reachable at:]"
ReadyLine(url) == <<LF, ReadyText, url>>

\* ---------------------------------------------------------------- inputs
\* raw chunks a process may emit
Chunks ==
    { <<ESC, "[", "3", "2", "m", "O", "K", ESC, "[", "0", "m", LF>>,
      <<"a", "b">> }

Urls == {"u1", "u2"}

ExitCodes == {0, 1}

\* ---------------------------------------------------------------- state machine
Init ==
    /\ rev \in {1, 2}
    /\ output = <<>>
    /\ isLoading = TRUE
    /\ webContainerUrl = ""
    /\ webContainerRef = FALSE
    /\ iframeKey = 0
    /\ pc = "idle"
    /\ installPipe = FALSE
    /\ startPipe = FALSE
    /\ listener = FALSE
    /\ calls = <<>>
    /\ arrived = <<>>
    /\ readyDelivered = <<>>
    /\ log = <<>>
    /\ installExit = <<>>
    /\ failedAt = None
    /\ effectRuns = 0
    /\ refreshCalls = 0
    /\ installQueue = <<>>
    /\ startQueue = <<>>
    /\ installEmitted = <<>>
    /\ startEmitted = <<>>
    /\ readyMissed = 0

\* setOutput((prev) => prev + text)
AppendOutput(text) == output' = output \o text

\* MountEffect whose latch is released by a failed session, so that a later run
\* of the effect starts again
MountEffect_RetryAfterFailure ==
    /\ effectRuns < MaxEffectRuns
    /\ effectRuns' = effectRuns + 1
    /\ IF webContainerRef /\ pc # "failed"
       THEN UNCHANGED <<webContainerRef, isLoading, calls, pc>>
       ELSE /\ webContainerRef' = TRUE
            /\ isLoading' = TRUE
            /\ calls' = Append(calls, "boot")
            /\ pc' = "boot"
    /\ UNCHANGED <<rev, streams, readyMissed,
                   output, webContainerUrl, iframeKey, installPipe, startPipe,
                   listener, arrived, readyDelivered, log, installExit, failedAt,
                   refreshCalls>>

\* MountEffect without the webContainerRef latch
MountEffect_NoLatch ==
    /\ effectRuns < MaxEffectRuns
    /\ effectRuns' = effectRuns + 1
    /\ webContainerRef' = TRUE
    /\ isLoading' = TRUE
    /\ calls' = Append(calls, "boot")
    /\ pc' = "boot"
    /\ UNCHANGED <<rev, streams, readyMissed,
                   output, webContainerUrl, iframeKey, installPipe, startPipe,
                   listener, arrived, readyDelivered, log, installExit, failedAt,
                   refreshCalls>>

\* the useEffect body: the latch, then startWebContainer up to its first await
MountEffect ==
    /\ effectRuns < MaxEffectRuns
    /\ effectRuns' = effectRuns + 1
    /\ IF webContainerRef
       THEN UNCHANGED <<webContainerRef, isLoading, calls, pc>>
       ELSE /\ webContainerRef' = TRUE
            /\ isLoading' = TRUE
            /\ calls' = Append(calls, "boot")
            /\ pc' = "boot"
    /\ UNCHANGED <<rev, streams, readyMissed,
                   output, webContainerUrl, iframeKey, installPipe, startPipe,
                   listener, arrived, readyDelivered, log, installExit, failedAt,
                   refreshCalls>>

\* Catch with setOutput((prev) => prev + message)
Catch_Appends ==
    /\ output' = output \o FailMsg
    /\ isLoading' = FALSE
    /\ failedAt' = pc
    /\ pc' = "failed"
    /\ log' = Append(log, [kind |-> "fail"])
    /\ UNCHANGED <<rev, streams, readyMissed,
                   webContainerUrl, webContainerRef, iframeKey, installPipe,
                   startPipe, listener, calls, arrived, readyDelivered, installExit,
                   effectRuns, refreshCalls>>

\* Catch with setIsLoading(false) left out
Catch_KeepsLoading ==
    /\ output' = FailMsg
    /\ failedAt' = pc
    /\ pc' = "failed"
    /\ log' = Append(log, [kind |-> "fail"])
    /\ UNCHANGED <<rev, streams, readyMissed,
                   isLoading, webContainerUrl, webContainerRef, iframeKey,
                   installPipe, startPipe, listener, calls, arrived, readyDelivered,
                   installExit, effectRuns, refreshCalls>>

\* catch block, then finally block
Catch ==
    /\ output' = FailMsg
    /\ isLoading' = FALSE
    /\ failedAt' = pc
    /\ pc' = "failed"
    /\ log' = Append(log, [kind |-> "fail"])
    /\ UNCHANGED <<rev, streams, readyMissed,
                   webContainerUrl, webContainerRef, iframeKey, installPipe,
                   startPipe, listener, calls, arrived, readyDelivered, installExit,
                   effectRuns, refreshCalls>>

\* await WebContainer.boot() resolves: mount(files) is called
BootResolves ==
    /\ pc = "boot"
    /\ calls' = Append(calls, "mount")
    /\ pc' = "mount"
    /\ UNCHANGED <<rev, streams, readyMissed,
                   output, isLoading, webContainerUrl, webContainerRef, iframeKey,
                   installPipe, startPipe, listener, arrived, readyDelivered, log,
                   installExit, failedAt, effectRuns, refreshCalls>>

BootRejects == pc = "boot" /\ Catch

\* await mount(files) resolves: spawn("npm", ["install"]) is called
MountResolves ==
    /\ pc = "mount"
    /\ calls' = Append(calls, "spawn_install")
    /\ pc' = "spawnInstall"
    /\ UNCHANGED <<rev, streams, readyMissed,
                   output, isLoading, webContainerUrl, webContainerRef, iframeKey,
                   installPipe, startPipe, listener, arrived, readyDelivered, log,
                   installExit, failedAt, effectRuns, refreshCalls>>

MountRejects == pc = "mount" /\ Catch

\* InstallSpawnResolves without `await installProcess.exit`: the start process is
\* spawned at once
InstallSpawnResolves_NoAwait ==
    /\ pc = "spawnInstall"
    /\ installPipe' = TRUE
    /\ calls' = Append(calls, "spawn_start")
    /\ pc' = "spawnStart"
    /\ UNCHANGED <<rev, streams, readyMissed,
                   output, isLoading, webContainerUrl, webContainerRef, iframeKey,
                   startPipe, listener, arrived, readyDelivered, log, installExit,
                   failedAt, effectRuns, refreshCalls>>

\* InstallSpawnResolves that also clears isLoading when the pipe is attached
InstallSpawnResolves_ClearsLoading ==
    /\ pc = "spawnInstall"
    /\ installPipe' = TRUE
    /\ isLoading' = FALSE
    /\ calls' = Append(calls, "await_exit")
    /\ pc' = "installExit"
    /\ UNCHANGED <<rev, streams, readyMissed,
                   output, webContainerUrl, webContainerRef, iframeKey,
                   startPipe, listener, arrived, readyDelivered, log, installExit,
                   failedAt, effectRuns, refreshCalls>>

\* await spawn("npm", ["install"]) resolves: pipe the output, await the exit
InstallSpawnResolves ==
    /\ pc = "spawnInstall"
    /\ installPipe' = TRUE
    /\ calls' = Append(calls, "await_exit")
    /\ pc' = "installExit"
    /\ UNCHANGED <<rev, streams, readyMissed,
                   output, isLoading, webContainerUrl, webContainerRef, iframeKey,
                   startPipe, listener, arrived, readyDelivered, log, installExit,
                   failedAt, effectRuns, refreshCalls>>

InstallSpawnRejects == pc = "spawnInstall" /\ Catch

\* the install process, spawned and not yet seen to exit, emits a chunk into
\* installProcess.output
InstallEmit(data) ==
    /\ pc = "installExit"
    /\ Len(installEmitted) + Len(startEmitted) < MaxChunks
    /\ installQueue' = Append(installQueue, data)
    /\ installEmitted' = Append(installEmitted, data)
    /\ UNCHANGED <<rev, output, isLoading, webContainerUrl, webContainerRef, iframeKey,
                   pc, installPipe, startPipe, listener, calls, arrived,
                   readyDelivered, log, installExit, failedAt, effectRuns,
                   refreshCalls, startQueue, startEmitted, readyMissed>>

\* InstallWrite with setOutput(text) instead of setOutput((prev) => prev + text)
InstallWrite_Overwrite(data) ==
    /\ installPipe
    /\ installQueue # <<>>
    /\ data = Head(installQueue)
    /\ installQueue' = Tail(installQueue)
    /\ output' = ChunkPrefix \o cleanOutput(data)
    /\ arrived' = Append(arrived, [from |-> "install", data |-> data])
    /\ log' = Append(log, [kind |-> "chunk", data |-> data])
    /\ UNCHANGED <<rev, startQueue, installEmitted, startEmitted, readyMissed,
                   isLoading, webContainerUrl, webContainerRef, iframeKey, pc,
                   installPipe, startPipe, listener, calls, readyDelivered,
                   installExit, failedAt, effectRuns, refreshCalls>>

\* write(data) of the install pipe
InstallWrite(data) ==
    /\ installPipe
    /\ installQueue # <<>>
    /\ data = Head(installQueue)
    /\ installQueue' = Tail(installQueue)
    /\ AppendOutput(ChunkPrefix \o cleanOutput(data))
    /\ arrived' = Append(arrived, [from |-> "install", data |-> data])
    /\ log' = Append(log, [kind |-> "chunk", data |-> data])
    /\ UNCHANGED <<rev, startQueue, installEmitted, startEmitted, readyMissed,
                   isLoading, webContainerUrl, webContainerRef, iframeKey, pc,
                   installPipe, startPipe, listener, calls, readyDelivered,
                   installExit, failedAt, effectRuns, refreshCalls>>

\* InstallExits with on("server-ready", ...) registered before the start spawn is
\* awaited
InstallExits_RegistersListener(code) ==
    /\ pc = "installExit"
    /\ installExit' = <<code>>
    /\ listener' = TRUE
    /\ calls' = Append(calls, "spawn_start")
    /\ pc' = "spawnStart"
    /\ UNCHANGED <<rev, streams, readyMissed,
                   output, isLoading, webContainerUrl, webContainerRef, iframeKey,
                   installPipe, startPipe, arrived, readyDelivered, log,
                   failedAt, effectRuns, refreshCalls>>

\* InstallExits that throws on a non-zero exit code
InstallExits_CheckCode(code) ==
    /\ pc = "installExit"
    /\ installExit' = <<code>>
    /\ IF code = 0
       THEN /\ calls' = Append(calls, "spawn_start")
            /\ pc' = "spawnStart"
            /\ UNCHANGED <<output, isLoading, log, failedAt>>
       ELSE /\ output' = FailMsg
            /\ isLoading' = FALSE
            /\ failedAt' = pc
            /\ pc' = "failed"
            /\ log' = Append(log, [kind |-> "fail"])
            /\ UNCHANGED calls
    /\ UNCHANGED <<rev, streams, readyMissed,
                   webContainerUrl, webContainerRef, iframeKey, installPipe,
                   startPipe, listener, arrived, readyDelivered, effectRuns,
                   refreshCalls>>

\* await installProcess.exit resolves with any code: spawn("node", ["index.js"]) is called
InstallExits(code) ==
    /\ pc = "installExit"
    /\ installExit' = <<code>>
    /\ calls' = Append(calls, "spawn_start")
    /\ pc' = "spawnStart"
    /\ UNCHANGED <<rev, streams, readyMissed,
                   output, isLoading, webContainerUrl, webContainerRef, iframeKey,
                   installPipe, startPipe, listener, arrived, readyDelivered, log,
                   failedAt, effectRuns, refreshCalls>>

InstallExitRejects == pc = "installExit" /\ Catch

\* StartSpawnResolves with setIsLoading(false) only in the catch block
StartSpawnResolves_NoFinally ==
    /\ pc = "spawnStart"
    /\ startPipe' = TRUE
    /\ listener' = TRUE
    /\ calls' = Append(calls, "on_server_ready")
    /\ pc' = "done"
    /\ UNCHANGED <<rev, streams, readyMissed,
                   output, isLoading, webContainerUrl, webContainerRef, iframeKey,
                   installPipe, arrived, readyDelivered, log, installExit, failedAt,
                   effectRuns, refreshCalls>>

\* await spawn("node", ["index.js"]) resolves: pipe the output, register the
\* server-ready listener, run the finally block
StartSpawnResolves ==
    /\ pc = "spawnStart"
    /\ startPipe' = TRUE
    /\ listener' = TRUE
    /\ calls' = Append(calls, "on_server_ready")
    /\ isLoading' = FALSE
    /\ pc' = "done"
    /\ UNCHANGED <<rev, streams, readyMissed,
                   output, webContainerUrl, webContainerRef, iframeKey,
                   installPipe, arrived, readyDelivered, log, installExit, failedAt,
                   effectRuns, refreshCalls>>

StartSpawnRejects == pc = "spawnStart" /\ Catch

\* the start process emits a chunk into startProcess.output
StartEmit(data) ==
    /\ pc = "done"
    /\ Len(installEmitted) + Len(startEmitted) < MaxChunks
    /\ startQueue' = Append(startQueue, data)
    /\ startEmitted' = Append(startEmitted, data)
    /\ UNCHANGED <<rev, output, isLoading, webContainerUrl, webContainerRef, iframeKey,
                   pc, installPipe, startPipe, listener, calls, arrived,
                   readyDelivered, log, installExit, failedAt, effectRuns,
                   refreshCalls, installQueue, installEmitted, readyMissed>>

\* StartWrite that appends the chunk twice
StartWrite_Duplicates(data) ==
    /\ startPipe
    /\ startQueue # <<>>
    /\ data = Head(startQueue)
    /\ startQueue' = Tail(startQueue)
    /\ AppendOutput(ChunkPrefix \o cleanOutput(data) \o ChunkPrefix \o cleanOutput(data))
    /\ arrived' = Append(arrived, [from |-> "start", data |-> data])
    /\ log' = Append(log, [kind |-> "chunk", data |-> data])
    /\ UNCHANGED <<rev, installQueue, installEmitted, startEmitted, readyMissed,
                   isLoading, webContainerUrl, webContainerRef, iframeKey, pc,
                   installPipe, startPipe, listener, calls, readyDelivered,
                   installExit, failedAt, effectRuns, refreshCalls>>

\* StartWrite with setOutput(text) instead of setOutput((prev) => prev + text)
StartWrite_Overwrite(data) ==
    /\ startPipe
    /\ startQueue # <<>>
    /\ data = Head(startQueue)
    /\ startQueue' = Tail(startQueue)
    /\ output' = ChunkPrefix \o cleanOutput(data)
    /\ arrived' = Append(arrived, [from |-> "start", data |-> data])
    /\ log' = Append(log, [kind |-> "chunk", data |-> data])
    /\ UNCHANGED <<rev, installQueue, installEmitted, startEmitted, readyMissed,
                   isLoading, webContainerUrl, webContainerRef, iframeKey, pc,
                   installPipe, startPipe, listener, calls, readyDelivered,
                   installExit, failedAt, effectRuns, refreshCalls>>

\* write(data) of the start pipe
StartWrite(data) ==
    /\ startPipe
    /\ startQueue # <<>>
    /\ data = Head(startQueue)
    /\ startQueue' = Tail(startQueue)
    /\ AppendOutput(ChunkPrefix \o cleanOutput(data))
    /\ arrived' = Append(arrived, [from |-> "start", data |-> data])
    /\ log' = Append(log, [kind |-> "chunk", data |-> data])
    /\ UNCHANGED <<rev, installQueue, installEmitted, startEmitted, readyMissed,
                   isLoading, webContainerUrl, webContainerRef, iframeKey, pc,
                   installPipe, startPipe, listener, calls, readyDelivered,
                   installExit, failedAt, effectRuns, refreshCalls>>

\* the runtime emits server-ready after spawn("node", ["index.js"]) was called and
\* before the awaited spawn resumed startWebContainer: no listener is registered
\* yet, so no callback runs
ServerReadyUnheard ==
    /\ pc = "spawnStart"
    /\ ~listener
    /\ Len(readyDelivered) + readyMissed < MaxReady
    /\ readyMissed' = readyMissed + 1
    /\ UNCHANGED <<rev, streams, output, isLoading, webContainerUrl, webContainerRef,
                   iframeKey, pc, installPipe, startPipe, listener, calls, arrived,
                   readyDelivered, log, installExit, failedAt, effectRuns,
                   refreshCalls>>

\* ServerReady with setWebContainerUrl(port)
ServerReady_StoresPort(url) ==
    /\ listener
    /\ Len(readyDelivered) + readyMissed < MaxReady
    /\ webContainerUrl' = "3000"
    /\ AppendOutput(ReadyLine(url))
    /\ readyDelivered' = Append(readyDelivered, url)
    /\ log' = Append(log, [kind |-> "ready", url |-> url])
    /\ UNCHANGED <<rev, streams, readyMissed,
                   isLoading, webContainerRef, iframeKey, pc, installPipe,
                   startPipe, listener, calls, arrived, installExit, failedAt,
                   effectRuns, refreshCalls>>

\* ServerReady without the readiness line
ServerReady_NoLine(url) ==
    /\ listener
    /\ Len(readyDelivered) + readyMissed < MaxReady
    /\ webContainerUrl' = url
    /\ readyDelivered' = Append(readyDelivered, url)
    /\ log' = Append(log, [kind |-> "ready", url |-> url])
    /\ UNCHANGED <<rev, streams, readyMissed, output,
                   isLoading, webContainerRef, iframeKey, pc, installPipe,
                   startPipe, listener, calls, arrived, installExit, failedAt,
                   effectRuns, refreshCalls>>

\* ServerReady that keeps the first address
ServerReady_FirstOnly(url) ==
    /\ listener
    /\ Len(readyDelivered) + readyMissed < MaxReady
    /\ webContainerUrl' = (IF webContainerUrl = "" THEN url ELSE webContainerUrl)
    /\ AppendOutput(ReadyLine(url))
    /\ readyDelivered' = Append(readyDelivered, url)
    /\ log' = Append(log, [kind |-> "ready", url |-> url])
    /\ UNCHANGED <<rev, streams, readyMissed,
                   isLoading, webContainerRef, iframeKey, pc, installPipe,
                   startPipe, listener, calls, arrived, installExit, failedAt,
                   effectRuns, refreshCalls>>

\* the server-ready callback
ServerReady(url) ==
    /\ listener
    /\ Len(readyDelivered) + readyMissed < MaxReady
    /\ webContainerUrl' = url
    /\ AppendOutput(ReadyLine(url))
    /\ readyDelivered' = Append(readyDelivered, url)
    /\ log' = Append(log, [kind |-> "ready", url |-> url])
    /\ UNCHANGED <<rev, streams, readyMissed,
                   isLoading, webContainerRef, iframeKey, pc, installPipe,
                   startPipe, listener, calls, arrived, installExit, failedAt,
                   effectRuns, refreshCalls>>

\* refreshIframe with setIframeKey(1)
refreshIframe_SetOne ==
    /\ ~isLoading
    /\ webContainerUrl # ""
    /\ refreshCalls < MaxRefresh
    /\ iframeKey' = 1
    /\ refreshCalls' = refreshCalls + 1
    /\ UNCHANGED <<rev, streams, readyMissed,
                   output, isLoading, webContainerUrl, webContainerRef, pc,
                   installPipe, startPipe, listener, calls, arrived, readyDelivered,
                   log, installExit, failedAt, effectRuns>>

\* the refresh button (rendered when !isLoading and webContainerUrl is set) calls
\* refreshIframe
refreshIframe ==
    /\ ~isLoading
    /\ webContainerUrl # ""
    /\ refreshCalls < MaxRefresh
    /\ iframeKey' = iframeKey + 1
    /\ refreshCalls' = refreshCalls + 1
    /\ UNCHANGED <<rev, streams, readyMissed,
                   output, isLoading, webContainerUrl, webContainerRef, pc,
                   installPipe, startPipe, listener, calls, arrived, readyDelivered,
                   log, installExit, failedAt, effectRuns>>

Next ==
    \/ MountEffect
    \/ BootResolves
    \/ BootRejects
    \/ MountResolves
    \/ MountRejects
    \/ InstallSpawnResolves
    \/ InstallSpawnRejects
    \/ \E data \in Chunks : InstallEmit(data)
    \/ \E data \in Chunks : InstallWrite(data)
    \/ \E code \in ExitCodes : InstallExits(code)
    \/ InstallExitRejects
    \/ StartSpawnResolves
    \/ StartSpawnRejects
    \/ \E data \in Chunks : StartEmit(data)
    \/ \E data \in Chunks : StartWrite(data)
    \/ ServerReadyUnheard
    \/ \E url \in Urls : ServerReady(url)
    \/ refreshIframe

Spec == Init /\ [][Next]_vars

\* the scheduler runs the mount effect, and every suspending runtime call
\* (boot, mount, both spawns, the install exit) eventually resolves or rejects
FairSpec ==
    /\ Spec
    /\ WF_vars(MountEffect)
    /\ WF_vars(BootResolves \/ BootRejects)
    /\ WF_vars(MountResolves \/ MountRejects)
    /\ WF_vars(InstallSpawnResolves \/ InstallSpawnRejects)
    /\ WF_vars((\E code \in ExitCodes : InstallExits(code)) \/ InstallExitRejects)
    /\ WF_vars(StartSpawnResolves \/ StartSpawnRejects)

\* ---------------------------------------------------------------- properties
IsPrefix(a, b) == Len(a) <= Len(b) /\ SubSeq(b, 1, Len(a)) = a

Count(seq, x) == Cardinality({i \in DOMAIN seq : seq[i] = x})

\* concatenation, in arrival order, of the cleaned chunks
RECURSIVE CleanedConcat(_)
CleanedConcat(a) ==
    IF a = <<>> THEN <<>> ELSE cleanOutput(Head(a).data) \o CleanedConcat(Tail(a))

\* the text that the entries of the history l leave behind, read left to right
RECURSIVE Rendered(_, _)
Rendered(acc, l) ==
    IF l = <<>> THEN acc
    ELSE LET e == Head(l)
         IN  Rendered(CASE e.kind = "chunk" -> acc \o ChunkPrefix \o cleanOutput(e.data)
                        [] e.kind = "ready" -> acc \o ReadyLine(e.url)
                        [] e.kind = "fail"  -> FailMsg,
                      Tail(l))

\* C1 (as claimed): with no failure caught and no readiness line, output is exactly
\* the concatenation, in arrival order, of the cleaned chunks, nothing added.
C1_Original ==
    (failedAt = None /\ readyDelivered = <<>>) => output = CleanedConcat(arrived)

\* C1 (amended): output is the failure message, if start() caught a failure, followed
\* by what arrived since, in arrival order: each chunk cleaned and preceded by what
\* the revision puts before it (a line feed in revision 1, nothing in revision 2),
\* and each readiness line; the process a chunk came from makes no difference.
C1_OutputIsArrivalOrder == output = Rendered(<<>>, log)

C1_Witness ==
    /\ Len(arrived) >= 2
    /\ \E i, j \in DOMAIN arrived : arrived[i].from = "install" /\ arrived[j].from = "start"
    /\ \E i \in DOMAIN arrived : cleanOutput(arrived[i].data) # arrived[i].data
    /\ arrived[1].from = "start"
    /\ failedAt = None

\* C2: however often the mount effect runs, WebContainer.boot() is called exactly
\* once: never before the first run, once from the first run on.
C2_BootOnce == Count(calls, "boot") = (IF effectRuns = 0 THEN 0 ELSE 1)

C2_Witness == effectRuns >= 2 /\ pc = "boot" /\ Count(calls, "boot") = 1

\* C3: webContainerUrl is empty before the first server-ready delivery and equals
\* the address of the most recent delivery afterwards.
C3_PreviewAddress ==
    webContainerUrl =
        (IF readyDelivered = <<>> THEN "" ELSE readyDelivered[Len(readyDelivered)])

C3_Witness ==
    /\ Len(readyDelivered) >= 2
    /\ readyDelivered[Len(readyDelivered)] # readyDelivered[1]
    /\ webContainerUrl = readyDelivered[Len(readyDelivered)]

\* C4: every refreshIframe call adds exactly one to iframeKey and changes neither
\* output, webContainerUrl, isLoading nor the runtime calls made; nothing else
\* changes iframeKey, so K calls add exactly K.
C4_Refresh ==
    [][ /\ (refreshCalls' # refreshCalls =>
              /\ refreshCalls' = refreshCalls + 1
              /\ iframeKey' = iframeKey + 1
              /\ UNCHANGED <<output, webContainerUrl, isLoading, calls, pc,
                             installPipe, startPipe, listener>>)
        /\ (refreshCalls' = refreshCalls => iframeKey' = iframeKey) ]_vars

C4_Witness == refreshCalls >= 2 /\ iframeKey = refreshCalls /\ Len(arrived) >= 1

\* C5: after boot() or mount() rejected, output is the failure message, isLoading is
\* false, webContainerUrl is empty, no process was spawned, no pipe is attached and
\* no server-ready listener is registered.
C5_BootOrMountFailure ==
    failedAt \in {"boot", "mount"} =>
        /\ output = FailMsg
        /\ ~isLoading
        /\ webContainerUrl = ""
        /\ Count(calls, "spawn_install") = 0
        /\ Count(calls, "spawn_start") = 0
        /\ ~installPipe /\ ~startPipe /\ ~listener

C5_Witness == failedAt = "mount" /\ effectRuns >= 2 /\ output = FailMsg

\* C6: when the install exit resolves, with whatever code, the next step is the
\* spawn of the start process: output is untouched and the catch block does not
\* run; and once the start spawn resolves the listener is registered.
C6_ExitCodeIgnored ==
    /\ [][ (installExit = <<>> /\ installExit' # <<>>) =>
              /\ pc' = "spawnStart"
              /\ calls' = Append(calls, "spawn_start")
              /\ output' = output
              /\ failedAt' = None ]_vars
    /\ [](installExit # <<>> => Count(calls, "spawn_start") = 1)
    /\ []((installExit # <<>> /\ pc = "done") => (listener /\ startPipe))

C6_Witness == installExit = <<1>> /\ pc = "done" /\ listener /\ arrived # <<>>

\* the order of the runtime calls of one session
Order == <<"boot", "mount", "spawn_install", "await_exit", "spawn_start", "on_server_ready">>

\* C7: the runtime calls are made in the order boot, mount, spawn(install), await
\* exit, spawn(start), on(server-ready), each after the previous one completed: the
\* start process is spawned only after the install exit, the listener registered
\* only after the start spawn resolved.
C7_CallOrder ==
    /\ IsPrefix(calls, Order)
    /\ (Count(calls, "spawn_start") > 0 => installExit # <<>>)
    /\ (Count(calls, "await_exit") > 0 => installPipe)
    /\ (Count(calls, "on_server_ready") > 0 <=> listener)
    /\ (listener => startPipe)
    /\ (pc = "boot" => Len(calls) = 1)
    /\ (pc = "mount" => Len(calls) = 2)
    /\ (pc = "spawnInstall" => Len(calls) = 3)
    /\ (pc = "installExit" => Len(calls) = 4)
    /\ (pc = "spawnStart" => Len(calls) = 5)
    /\ (pc = "done" => Len(calls) = 6)

C7_Witness == calls = Order /\ installExit # <<>> /\ listener

\* C8 (as claimed): once the install pipe is attached, isLoading is false.
C8_Original == installPipe => ~isLoading

\* C8 (amended): isLoading is true from construction until startWebContainer ends,
\* that is until the server-ready listener is registered or the catch block ran,
\* and false from then on; it is still true while the install process runs and
\* its chunks arrive.
C8_LoadingUntilEnd == isLoading <=> pc \notin {"done", "failed"}

C8_Witness ==
    /\ pc = "installExit"
    /\ installPipe
    /\ isLoading
    /\ arrived # <<>>

\* C9: when every suspending runtime call eventually resolves or rejects, isLoading
\* eventually becomes false, and once false it never becomes true again.
C9_LoadingEnds ==
    /\ <>(~isLoading)
    /\ [][~isLoading => ~isLoading']_vars

C9_Witness == ~isLoading /\ failedAt = "spawnStart" /\ effectRuns >= 2

\* C10 (as claimed): across every transition the previous output is a prefix of
\* the new output.
C10_Original == [][IsPrefix(output, output')]_vars

\* C10 (amended): across every transition the previous output is a prefix of the
\* new output, except the one in which the catch block runs, which replaces
\* output by the failure message.
C10_AppendOnlyButCatch ==
    [][ \/ IsPrefix(output, output')
        \/ (failedAt = None /\ failedAt' # None /\ output' = FailMsg) ]_vars

C10_Witness ==
    /\ failedAt \in {"installExit", "spawnStart"}
    /\ arrived # <<>>
    /\ output = FailMsg

\* C11: in the step in which the catch block runs, whatever the step that failed
\* and whatever was appended before, output becomes exactly the failure message.
C11_CatchReplacesOutput ==
    [][ (failedAt = None /\ failedAt' # None) => output' = FailMsg ]_vars

C11_Witness ==
    /\ failedAt = "spawnStart"
    /\ log # <<>>
    /\ log[Len(log)].kind = "fail"
    /\ arrived # <<>>
    /\ arrived[1].from = "install"
    /\ output = FailMsg

\* C12 (as claimed): once webContainerUrl is set, no later step changes it.
C12_Original == [][ webContainerUrl # "" => webContainerUrl' = webContainerUrl ]_vars

\* C12 (amended): webContainerUrl is changed only by a server-ready delivery,
\* which stores the address of that delivery, overwriting an earlier one.
C12_SetOnlyByDelivery ==
    [][ webContainerUrl' # webContainerUrl =>
            readyDelivered' = Append(readyDelivered, webContainerUrl') ]_vars

C12_Witness ==
    /\ Len(readyDelivered) >= 2
    /\ readyDelivered[1] # webContainerUrl
    /\ arrived # <<>>
    /\ refreshCalls >= 1

\* text with the readiness lines and the failure message taken out
RECURSIVE ChunkText(_)
ChunkText(s) ==
    IF s = <<>> THEN <<>>
    ELSE IF Len(s) >= 3 /\ s[1] = LF /\ s[2] = ReadyText
         THEN ChunkText(SubSeq(s, 4, Len(s)))
         ELSE IF <<s[1]>> = FailMsg
              THEN ChunkText(Tail(s))
              ELSE <<s[1]>> \o ChunkText(Tail(s))

\* the chunks of l as the write() callbacks append them, in order
RECURSIVE RenderChunks(_)
RenderChunks(l) ==
    IF l = <<>> THEN <<>>
    ELSE ChunkPrefix \o cleanOutput(Head(l).data) \o RenderChunks(Tail(l))

\* the data of the chunks of `arrived` that came from process p, in order
ArrivedFrom(p) ==
    LET sel == SelectSeq(arrived, LAMBDA a : a.from = p)
    IN  [i \in DOMAIN sel |-> sel[i].data]

\* the chunks handed to write() after the catch block ran, all of them if it did not
ArrivedSinceCatch ==
    LET F == {i \in DOMAIN log : log[i].kind = "fail"}
        rest == IF F = {} THEN log
                ELSE SubSeq(log, (CHOOSE i \in F : \A j \in F : j <= i) + 1, Len(log))
    IN  SelectSeq(rest, LAMBDA e : e.kind = "chunk")

\* each process's chunks are handed to write() in emission order, none twice
FifoPerProcess ==
    /\ IsPrefix(ArrivedFrom("install"), installEmitted)
    /\ IsPrefix(ArrivedFrom("start"), startEmitted)
    /\ installEmitted = ArrivedFrom("install") \o installQueue
    /\ startEmitted = ArrivedFrom("start") \o startQueue

\* C13 (as claimed): every chunk handed to write() is in output exactly once, in
\* arrival order, and each process's chunks are in emission order.
C13_Original ==
    /\ ChunkText(output) = RenderChunks(arrived)
    /\ FifoPerProcess

\* C13 (amended): every chunk handed to write() since the catch block ran (every
\* chunk, if it did not run) is in output exactly once, in arrival order, and each
\* process's chunks are handed over in emission order; the chunks appended before
\* the catch block ran are lost.
C13_ChunksOnceInOrder ==
    /\ ChunkText(output) = RenderChunks(ArrivedSinceCatch)
    /\ FifoPerProcess

C13_Witness ==
    /\ Len(arrived) >= 2
    /\ arrived[1].from = "start"
    /\ arrived[2].from = "install"
    /\ arrived[1].data # arrived[2].data
    /\ pc = "done"
    /\ readyDelivered # <<>>

CallNames == {Order[i] : i \in DOMAIN Order}

\* C14: each runtime call is made at most once, and after the catch block ran no
\* runtime call is made any more, however often the mount effect runs.
C14_NoRetry ==
    /\ [](\A c \in CallNames : Count(calls, c) <= 1)
    /\ [][ failedAt # None => calls' = calls ]_vars

C14_Witness ==
    /\ failedAt = "spawnInstall"
    /\ effectRuns >= 2
    /\ calls = SubSeq(Order, 1, 3)

\* ---------------------------------------------------------------- cleanOutput alone
MaxPieces == 3

Letters ==
    {"A", "B", "C", "D", "E", "F", "G", "H", "I", "J", "K", "L", "M",
     "N", "O", "P", "Q", "R", "S", "T", "U", "V", "W", "X", "Y", "Z",
     "a", "b", "c", "d", "e", "f", "g", "h", "i", "j", "k", "l", "m",
     "n", "o", "p", "q", "r", "s", "t", "u", "v", "w", "x", "y", "z"}

\* printable text, and complete control sequences ESC [ digits (; digits)* letter
Pieces ==
    { <<"a">>, <<"O", "K">>, <<LF>>,
      <<ESC, "[", "3", "2", "m">>,
      <<ESC, "[", "0", "m">>,
      <<ESC, "[", "1", ";", "3", "1", "m">>,
      <<ESC, "[", "2", "J">>,
      <<ESC, "[", "1", "P">>,
      <<ESC, "[", "s">>,
      <<ESC, "[", "1", "2", "3", "4", "5", "m">> }

RECURSIVE Flatten(_)
Flatten(ps) == IF ps = <<>> THEN <<>> ELSE Head(ps) \o Flatten(Tail(ps))

\* the chunks made of at most MaxPieces pieces
WellFormedChunks ==
    {Flatten(ps) : ps \in UNION {[1..n -> Pieces] : n \in 1..MaxPieces}}

\* s without its sequences ESC [ digits (; digits)* letter, for s made of Pieces
RECURSIVE StripSequences(_)
StripSequences(s) ==
    IF s = <<>> THEN <<>>
    ELSE IF s[1] = ESC
         THEN LET k == CHOOSE i \in 2..Len(s) :
                           s[i] \in Letters /\ \A j \in 2..(i - 1) : s[j] \notin Letters
              IN  StripSequences(SubSeq(s, k + 1, Len(s)))
         ELSE <<s[1]>> \o StripSequences(Tail(s))

\* the install process has been spawned and has emitted one chunk
CleanInit ==
    /\ rev \in {1, 2}
    /\ output = <<>>
    /\ isLoading = TRUE
    /\ webContainerUrl = ""
    /\ webContainerRef = TRUE
    /\ iframeKey = 0
    /\ pc = "installExit"
    /\ installPipe = TRUE
    /\ startPipe = FALSE
    /\ listener = FALSE
    /\ calls = SubSeq(Order, 1, 4)
    /\ arrived = <<>>
    /\ readyDelivered = <<>>
    /\ log = <<>>
    /\ installExit = <<>>
    /\ failedAt = None
    /\ effectRuns = 1
    /\ refreshCalls = 0
    /\ \E data \in WellFormedChunks :
           installQueue = <<data>> /\ installEmitted = <<data>>
    /\ startQueue = <<>>
    /\ startEmitted = <<>>
    /\ readyMissed = 0

CleanNext == \E data \in WellFormedChunks : InstallWrite(data)

CleanSpec == CleanInit /\ [][CleanNext]_vars

\* C15 (as claimed): a chunk made of printable text and complete sequences
\* ESC [ digits (; digits)* letter is appended as its printable text, every such
\* sequence removed and every other character kept in order.
C15_Original ==
    arrived # <<>> => output = ChunkPrefix \o StripSequences(arrived[1].data)

\* C16 (as claimed): once the catch block ran, output is the failure message in
\* every later state.
C16_Original == failedAt # None => output = FailMsg

\* C17: if webContainerUrl is set, isLoading is false; the listener is registered
\* only in the step that also runs the finally block.
C17_UrlImpliesLoaded ==
    /\ webContainerUrl # "" => ~isLoading
    /\ listener => ~isLoading

C17_Witness ==
    /\ webContainerUrl # ""
    /\ ~isLoading
    /\ Len(readyDelivered) = 1
    /\ refreshCalls = 0
    /\ pc = "done"

\* the addresses of the readiness lines of s, in order
RECURSIVE ReadyAddrs(_)
ReadyAddrs(s) ==
    IF Len(s) < 3 THEN <<>>
    ELSE IF s[1] = LF /\ s[2] = ReadyText
         THEN <<s[3]>> \o ReadyAddrs(SubSeq(s, 4, Len(s)))
         ELSE ReadyAddrs(Tail(s))

\* C18: output holds one readiness line per server-ready delivery, in delivery
\* order, each with the address of its delivery, and the address of the last one
\* is webContainerUrl; both are written in the same step.
C18_ReadyLinesMatch ==
    /\ [](ReadyAddrs(output) = readyDelivered)
    /\ [](readyDelivered # <<>> =>
            ReadyAddrs(output)[Len(ReadyAddrs(output))] = webContainerUrl)
    /\ [][ readyDelivered' # readyDelivered =>
             /\ webContainerUrl' = readyDelivered'[Len(readyDelivered')]
             /\ output' = output \o ReadyLine(webContainerUrl') ]_vars

C18_Witness ==
    /\ Len(readyDelivered) >= 2
    /\ readyDelivered[1] # readyDelivered[2]
    /\ log[Len(log)].kind = "chunk"
    /\ log[1].kind = "chunk"

\* C19 (as claimed): once the server has announced that it is ready and
\* startWebContainer has finished, webContainerUrl is eventually set.
C19_Original ==
    (readyMissed + Len(readyDelivered) > 0 /\ pc = "done") ~> (webContainerUrl # "")

====
